---- MODULE Spec2Model ----
(***************************************************************************)
(* Model of the list-comparison engine of ddrconfcmp.c: the comparator     *)
(* compare_ddrc_cfg_arrays / compare_ddrphy_cfg_arrays (the two are the    *)
(* same algorithm over two record widths), its helpers count_common_*,     *)
(* extract_common_*, find_and_display_unique_*, find_duplicates_*, driven   *)
(* by check_ddrc_cfg.  Array indices are 0-based as in the C source; a     *)
(* list is a TLA+ sequence, so element i of the source is s[i + 1].        *)
(***************************************************************************)
EXTENDS Integers, Sequences, FiniteSets, TLC

(* ---------------------------- bounds ---------------------------------- *)
(* longest list of the full input enumeration *)
MaxLen == 3

(* ----------------------- program constants ---------------------------- *)
LookaheadWindow == 50
MaxOccurrences == 64
MaxDups == 100
MaxReported == 100

VARIABLES cfg1, cfg2, pc, arg1, arg2, callers, ret, diff_count,
          common_result, left_count, right_count, common_count1,
          common_count2, common1, common2, i1, i2, blocks,
          left_dups, right_dups, heap_log,
          messages, unique_lines, invoked, reports,
          check, fsp_i, part, nums, compared, check_ret, main_ret,
          argv, exit_code, value_diffs, segments, first_outcome

vars == <<cfg1, cfg2, pc, arg1, arg2, callers, ret, diff_count,
          common_result, left_count, right_count, common_count1,
          common_count2, common1, common2, i1, i2, blocks,
          left_dups, right_dups, heap_log,
          messages, unique_lines, invoked, reports,
          check, fsp_i, part, nums, compared, check_ret, main_ret,
          argv, exit_code, value_diffs, segments, first_outcome>>

(* ------------------------------ data ----------------------------------- *)
(* Register addresses and values are only ever tested for equality by    *)
(* the source (==, != on .reg and .val), so the enumeration draws them   *)
(* from two-element domains: "this one" and "another one".               *)
Keys == {1, 2}
Vals == {1, 2}
Record == [reg : Keys, val : Vals]
Lists == UNION {[1..n -> Record] : n \in 0..MaxLen}

Rec(k, v) == [reg |-> k, val |-> v]

ExampleReorderLeft == <<Rec(16, 1), Rec(32, 2), Rec(48, 3)>>
ExampleReorderRight == <<Rec(32, 2), Rec(16, 9), Rec(48, 3)>>

(* lists whose keys are pairwise distinct, over one key more than Keys  *)
DistinctKeyLists ==
    UNION {{l \in [1..n -> [reg : Keys \cup {3}, val : Vals]] :
               \A i, j \in 1..n : i # j => l[i].reg # l[j].reg} :
           n \in 0..MaxLen}

(* a nested comparison that completes in different order *)
ExampleNestedLeft == <<Rec(1, 1), Rec(2, 1), Rec(2, 2), Rec(3, 1)>>
ExampleNestedRight == <<Rec(1, 1), Rec(1, 2), Rec(2, 1)>>

(* more repeated keys than find_duplicates_* has room for: keys          *)
(* 1..MaxDups+1, each twice                                              *)
ManyDuplicates ==
    [i \in 1..(2 * (MaxDups + 1)) |-> Rec(((i - 1) % (MaxDups + 1)) + 1, 1)]

(* one key twice on both sides, one value changed *)
ExampleInterferenceLeft == <<Rec(16, 1), Rec(16, 2)>>
ExampleInterferenceRight == <<Rec(16, 1), Rec(16, 9)>>

(* as many repeated keys on the left as check_duplicate_interference can  *)
(* remember (keys 1..MaxReported, each twice), and one more key that is   *)
(* single on the left and, occurring more than MaxOccurrences + 1 times,  *)
(* fills two groups on the right; every value differs                     *)
ManyReportedLeft ==
    [i \in 1..(2 * MaxReported + 1) |->
        IF i <= 2 * MaxReported THEN Rec((i + 1) \div 2, 1)
        ELSE Rec(MaxReported + 1, 1)]
ManyReportedRight ==
    [i \in 1..(2 * MaxReported + 1) |->
        IF i > MaxOccurrences + 2 /\ i <= MaxOccurrences + 2 + MaxReported
        THEN Rec(i - (MaxOccurrences + 2), 2)
        ELSE Rec(MaxReported + 1, 2)]

(* two runs of LookaheadWindow equal keys in swapped order: each key's   *)
(* occurrences on one side lie a full window away from the other side's  *)
ExampleFarBlockLeft ==
    [i \in 1..(2 * LookaheadWindow) |->
        IF i <= LookaheadWindow THEN Rec(1, 1) ELSE Rec(2, 1)]
ExampleFarBlockRight ==
    [i \in 1..(2 * LookaheadWindow) |->
        IF i <= LookaheadWindow THEN Rec(2, 1) ELSE Rec(1, 1)]

(* one key MaxOccurrences + 2 times, and a second repeated key between   *)
(* its occurrences beyond the cap                                        *)
ExampleOverCap ==
    [i \in 1..(MaxOccurrences + 4) |->
        IF i > MaxOccurrences /\ (i - MaxOccurrences) % 2 = 1
        THEN Rec(2, 1) ELSE Rec(1, 1)]

Inputs ==
    (Lists \X Lists) \cup (DistinctKeyLists \X DistinctKeyLists)
    \cup {<<ExampleReorderLeft, ExampleReorderRight>>,
          <<ExampleNestedLeft, ExampleNestedRight>>,
          <<ManyDuplicates, ManyDuplicates>>,
          <<ExampleInterferenceLeft, ExampleInterferenceRight>>,
          <<ManyReportedLeft, ManyReportedRight>>,
          <<ExampleFarBlockLeft, ExampleFarBlockRight>>,
          <<ExampleOverCap, ExampleOverCap>>}

Min(a, b) == IF a < b THEN a ELSE b

(* cfg[i] of the source, 0-based *)
At(cfg, i) == cfg[i + 1]

(* the inner "for j ... if (reg == cfg[j].reg) { found = 1; break; }" *)
FoundIn(reg, cfg) == \E j \in 0..(Len(cfg) - 1) : At(cfg, j).reg = reg

(* filter a list, keeping order: the "common[idx++] = cfg[i]" loops *)
RECURSIVE KeepFound(_, _)
KeepFound(cfg, other) ==
    IF cfg = <<>> THEN <<>>
    ELSE IF FoundIn(Head(cfg).reg, other)
         THEN <<Head(cfg)>> \o KeepFound(Tail(cfg), other)
         ELSE KeepFound(Tail(cfg), other)

(* ------------------- find_and_display_unique_* ------------------------- *)
unique_count(cfgA, cfgB) ==
    Cardinality({i \in 0..(Len(cfgA) - 1) : ~FoundIn(At(cfgA, i).reg, cfgB)})

(* indices of the records of cfgA whose key is nowhere in cfgB *)
unique_indices(cfgA, cfgB) ==
    {i \in 0..(Len(cfgA) - 1) : ~FoundIn(At(cfgA, i).reg, cfgB)}

(* "if (!found) { if (found_count == line) { snprintf(...); break; }      *)
(* found_count++; }": the entry of the line-th such record, or the empty  *)
(* string when there is none                                              *)
unique_entry(cfgA, cfgB, line) ==
    IF line < Cardinality(unique_indices(cfgA, cfgB))
    THEN LET i == CHOOSE u \in unique_indices(cfgA, cfgB) :
                     Cardinality({v \in unique_indices(cfgA, cfgB) :
                                     v < u}) = line
         IN <<[index |-> i, reg |-> At(cfgA, i).reg, val |-> At(cfgA, i).val]>>
    ELSE <<>>

(* the lines find_and_display_unique_* prints below its header: the left  *)
(* column is filled only "if (num1 > num2)", the right column only        *)
(* "if (num2 > num1)"                                                     *)
find_and_display_unique(cfgA, cfgB) ==
    [n \in 1..(IF unique_count(cfgA, cfgB) > unique_count(cfgB, cfgA)
               THEN unique_count(cfgA, cfgB)
               ELSE unique_count(cfgB, cfgA)) |->
        [left |-> IF Len(cfgA) > Len(cfgB)
                  THEN unique_entry(cfgA, cfgB, n - 1) ELSE <<>>,
         right |-> IF Len(cfgB) > Len(cfgA)
                   THEN unique_entry(cfgB, cfgA, n - 1) ELSE <<>>]]

(* --------------------------- count_common_* ---------------------------- *)
(* mutant: the inner loop without its break counts every matching pair *)
count_common_nobreak(cfgA, cfgB) ==
    Cardinality({p \in (0..(Len(cfgA) - 1)) \X (0..(Len(cfgB) - 1)) :
                    At(cfgA, p[1]).reg = At(cfgB, p[2]).reg})

count_common(cfgA, cfgB) ==
    Cardinality({i \in 0..(Len(cfgA) - 1) : FoundIn(At(cfgA, i).reg, cfgB)})

(* -------------------------- extract_common_* --------------------------- *)
(* every record is copied, found in the other list or not *)
extract_common_all(cfgA, cfgB) == cfgA

extract_common(cfgA, cfgB) == KeepFound(cfgA, cfgB)

(* ------------------ Order Classifier, Value Comparator ----------------- *)
(* texts of the print_warning / print_error / print_info calls *)
MsgStructural == "Structural differences found"
MsgInternalError == "Internal error: common register counts don't match"
MsgNoCommon == "No common registers found"
MsgAllocFailed == "Memory allocation failed for common register comparison"
MsgDifferentSets == "Arrays have same length but different register sets!"
MsgDifferentOrder == "Registers match, different order"

StructuralError == -1
SameOrder == 0
DifferentOrder == 1

(* mutant: the order test also demands equal values *)
same_order_and_values(a, b) ==
    \A i \in 0..(Len(a) - 1) : At(a, i) = At(b, i)

(* "for (i...) if (cfg1[i].reg != cfg2[i].reg) { same_order = 0; break; }" *)
same_order(a, b) ==
    \A i \in 0..(Len(a) - 1) : At(a, i).reg = At(b, i).reg

(* index of the first record of cfg holding reg: the j loop with break *)
FirstMatch(reg, cfg) ==
    CHOOSE j \in 0..(Len(cfg) - 1) :
        /\ At(cfg, j).reg = reg
        /\ \A k \in 0..(j - 1) : At(cfg, k).reg # reg

(* mutant: the same-order path compares against the first key match *)
positional_diff_count_by_key(a, b) ==
    Cardinality({i \in 0..(Len(a) - 1) :
                    At(a, i).val # At(b, FirstMatch(At(a, i).reg, b)).val})

(* same-order path: values compared index by index *)
positional_diff_count(a, b) ==
    Cardinality({i \in 0..(Len(a) - 1) : At(a, i).val # At(b, i).val})

(* mutant: only the left-to-right membership loop *)
all_present_left_only(a, b) ==
    \A i \in 0..(Len(a) - 1) : FoundIn(At(a, i).reg, b)

(* different-order path: every left key occurs in right and vice versa *)
all_present(a, b) ==
    /\ \A i \in 0..(Len(a) - 1) : FoundIn(At(a, i).reg, b)
    /\ \A i \in 0..(Len(b) - 1) : FoundIn(At(b, i).reg, a)

(* the printed "[index] reg: left != right" lines of the same-order path, *)
(* one per index whose values differ, in the order of the i loop          *)
positional_value_diffs(a, b) ==
    LET line(k) == [index |-> k - 1, reg |-> a[k].reg,
                    left |-> a[k].val, right |-> b[k].val]
        differs(l) == l.left # l.right
    IN SelectSeq([k \in 1..Len(a) |-> line(k)], differs)

(* the printed lines of the different-order path: the right value is the  *)
(* one of the first key match, where the j loop breaks                    *)
keyed_value_diffs(a, b) ==
    LET line(k) == [index |-> k - 1, reg |-> a[k].reg,
                    left |-> a[k].val,
                    right |-> IF FoundIn(a[k].reg, b)
                              THEN At(b, FirstMatch(a[k].reg, b)).val
                              ELSE a[k].val]
        differs(l) == l.left # l.right
    IN SelectSeq([k \in 1..Len(a) |-> line(k)], differs)

(* the j loop without its break: every right record of the key counts *)
keyed_diff_count_nobreak(a, b) ==
    Cardinality({<<i, j>> \in (0..(Len(a) - 1)) \X (0..(Len(b) - 1)) :
                    /\ At(a, i).reg = At(b, j).reg
                    /\ At(a, i).val # At(b, j).val})

(* different-order path: values compared against the first key match *)
keyed_diff_count(a, b) ==
    Cardinality({i \in 0..(Len(a) - 1) :
                    /\ FoundIn(At(a, i).reg, b)
                    /\ At(a, i).val # At(b, FirstMatch(At(a, i).reg, b)).val})

(* --------------------------- Block Relocator --------------------------- *)
(* the index ranges [left_start, left_end) and [right_start, right_end)   *)
(* one step of the scan consumes: a matched run (start_i1 .. i1 - 1), a   *)
(* displayed block (block_start_i1 .. i1 - 1), or the remaining entries   *)
Segment(kind, ls, le, rs, re) ==
    [kind |-> kind, left_start |-> ls, left_end |-> le,
     right_start |-> rs, right_end |-> re]

(* "for (check = from; check < from + 50 && check < num; check++)" *)
found_soon(reg, other, from) ==
    \E c \in from..(Min(from + LookaheadWindow, Len(other)) - 1) :
        At(other, c).reg = reg

(* the loop condition reads "pos <= num": a cursor may pass the list end *)
extend_block_past_end(cfg, pos, other, from) ==
    IF pos >= Len(cfg) THEN pos
    ELSE LET stops == {p \in pos..(Len(cfg) - 1) :
                          found_soon(At(cfg, p).reg, other, from)}
         IN IF stops = {} THEN Len(cfg) + 1
            ELSE CHOOSE p \in stops : \A q \in stops : p <= q

(* "while (pos < num) { if (found_soon) break; pos++; }": the loop ends  *)
(* at the first position from pos on whose key is found soon, or at num  *)
extend_block(cfg, pos, other, from) ==
    IF pos >= Len(cfg) THEN pos
    ELSE LET stops == {p \in pos..(Len(cfg) - 1) :
                          found_soon(At(cfg, p).reg, other, from)}
         IN IF stops = {} THEN Len(cfg)
            ELSE CHOOSE p \in stops : \A q \in stops : p <= q

(* "while (i1 < num1 && i2 < num2 && cfg1[i1].reg == cfg2[i2].reg)":     *)
(* the number of positions the two cursors advance together              *)
RECURSIVE matched_run(_, _, _, _)
matched_run(a, b, p, q) ==
    IF p < Len(a) /\ q < Len(b) /\ At(a, p).reg = At(b, q).reg
    THEN 1 + matched_run(a, b, p + 1, q + 1)
    ELSE 0

(* ---------------------------- find_duplicates_* ------------------------ *)
(* body of the inner "for (j = i + 1; j < num; j++)" for one j *)
collect_step(cfg, i, j, g) ==
    IF At(cfg, i).reg = At(cfg, j).reg /\ Len(g.indices) < MaxOccurrences
    THEN [g EXCEPT !.indices = Append(@, j),
                   !.values = Append(@, At(cfg, j).val)]
    ELSE g

(* the inner loop over j = lo..hi: collect_step applied for each j in     *)
(* increasing order.  The range is split in halves, the first half        *)
(* evaluated once and handed to the second, so that long lists evaluate   *)
(* in shallow recursion                                                   *)
RECURSIVE collect_occurrences(_, _, _, _, _)
collect_occurrences(cfg, i, lo, hi, g) ==
    IF lo > hi THEN g
    ELSE IF lo = hi THEN collect_step(cfg, i, lo, g)
    ELSE CHOOSE out \in
             {collect_occurrences(cfg, i, ((lo + hi) \div 2) + 1, hi, first) :
                 first \in {collect_occurrences(cfg, i, lo,
                                                (lo + hi) \div 2, g)}} : TRUE

(* mutant: processed[j] is never set *)
duplicates_step_unmarked(cfg, i, st) ==
    IF Len(st.dups) >= MaxDups THEN st
    ELSE LET g == collect_occurrences(cfg, i, i + 1, Len(cfg) - 1,
                      [reg |-> At(cfg, i).reg, indices |-> <<i>>,
                       values |-> <<At(cfg, i).val>>])
         IN [processed |-> st.processed,
             dups |-> IF Len(g.indices) > 1 THEN Append(st.dups, g)
                      ELSE st.dups]

(* body of the outer "for (i = 0; i < num && dup_count < max_dups; i++)" *)
(* for one i; st holds processed[] and dups[0..dup_count-1].  Once       *)
(* dup_count has reached max_dups the loop has ended, so the state stays *)
duplicates_step(cfg, i, st) ==
    IF Len(st.dups) >= MaxDups THEN st
    ELSE IF i \in st.processed THEN st
    ELSE LET g == collect_occurrences(cfg, i, i + 1, Len(cfg) - 1,
                      [reg |-> At(cfg, i).reg, indices |-> <<i>>,
                       values |-> <<At(cfg, i).val>>])
             marked == {g.indices[k] : k \in 2..Len(g.indices)}
         IN [processed |-> st.processed \cup marked,
             dups |-> IF Len(g.indices) > 1 THEN Append(st.dups, g)
                      ELSE st.dups]

(* the outer loop over i = lo..hi: duplicates_step applied for each i in  *)
(* increasing order, split in halves like the inner loop                  *)
RECURSIVE scan_duplicates(_, _, _, _)
scan_duplicates(cfg, lo, hi, st) ==
    IF lo > hi THEN st
    ELSE IF lo = hi THEN duplicates_step(cfg, lo, st)
    ELSE CHOOSE out \in
             {scan_duplicates(cfg, ((lo + hi) \div 2) + 1, hi, first) :
                 first \in {scan_duplicates(cfg, lo,
                                            (lo + hi) \div 2, st)}} : TRUE

find_duplicates(cfg) ==
    scan_duplicates(cfg, 0, Len(cfg) - 1,
                    [processed |-> {}, dups |-> <<>>]).dups

(* ---------------------- check_duplicate_interference ------------------- *)
(* "for (r = 0; r < reported_count; r++) if (reported_regs[r] == dup_reg)" *)
already_reported(reported, reg) ==
    \E r \in 1..Len(reported) : reported[r] = reg

(* mutant: the right value is the one of the first right record with     *)
(* the key                                                                *)
has_value_difference_by_key(c1, c2, reg) ==
    \E i \in 0..(Len(c1) - 1) :
        /\ At(c1, i).reg = reg
        /\ \E j \in 0..(Len(c2) - 1) :
              /\ At(c2, j).reg = reg
              /\ \A k \in 0..(j - 1) : At(c2, k).reg # reg
              /\ At(c1, i).val # At(c2, j).val

(* "for (i = 0; i < num; i++) ... if (reg_i == dup_reg && val1 != val2)": *)
(* reg_i is read from the left list, the values from both at index i      *)
has_value_difference(c1, c2, reg) ==
    \E i \in 0..(Len(c1) - 1) :
        At(c1, i).reg = reg /\ At(c1, i).val # At(c2, i).val

(* what is printed for one group: the key, its indices, and the left and  *)
(* right value at each of these indices                                   *)
interference_report(c1, c2, g) ==
    [reg |-> g.reg,
     indices |-> g.indices,
     left_values |-> [k \in 1..Len(g.indices) |-> At(c1, g.indices[k]).val],
     right_values |-> [k \in 1..Len(g.indices) |-> At(c2, g.indices[k]).val]]

(* body of "for (d = 0; d < dup_count; d++)" for one group g; st holds    *)
(* reported_regs[0..reported_count-1] and the reports printed so far      *)
interference_step(c1, c2, g, st) ==
    IF already_reported(st.reported, g.reg) THEN st
    ELSE IF has_value_difference(c1, c2, g.reg)
    THEN [reported |-> IF Len(st.reported) < MaxReported
                       THEN Append(st.reported, g.reg)
                       ELSE st.reported,
          reports |-> Append(st.reports, interference_report(c1, c2, g))]
    ELSE st

(* the loop over the groups dups[lo..hi] of one side, in increasing       *)
(* order, split in halves like the loops of find_duplicates_*             *)
RECURSIVE interference_side(_, _, _, _, _, _)
interference_side(c1, c2, dups, lo, hi, st) ==
    IF lo > hi THEN st
    ELSE IF lo = hi THEN interference_step(c1, c2, dups[lo], st)
    ELSE CHOOSE out \in
             {interference_side(c1, c2, dups, ((lo + hi) \div 2) + 1, hi,
                                first) :
                 first \in {interference_side(c1, c2, dups, lo,
                                              (lo + hi) \div 2, st)}} : TRUE

(* "for (side = 0; side < 2; side++)": the left groups, then the right    *)
check_duplicate_interference(c1, c2, ldups, rdups) ==
    interference_side(c1, c2, rdups, 1, Len(rdups),
        interference_side(c1, c2, ldups, 1, Len(ldups),
                          [reported |-> <<>>, reports |-> <<>>])).reports

(* mutant: without the test for value differences *)
interference_wanted_without_diffs(ldups, rdups, result, diffs, num1, num2) ==
    /\ Len(ldups) > 0 \/ Len(rdups) > 0
    /\ result >= 0
    /\ num1 = num2

(* the three nested conditions of check_ddrc_cfg / check_ddrphy_pie *)
interference_wanted(ldups, rdups, result, diffs, num1, num2) ==
    /\ Len(ldups) > 0 \/ Len(rdups) > 0
    /\ result >= 0 /\ diffs > 0
    /\ num1 = num2

(* ------------------------------ state ---------------------------------- *)
Init ==
    /\ \E in \in Inputs : cfg1 = in[1] /\ cfg2 = in[2]
    /\ arg1 = cfg1
    /\ arg2 = cfg2
    /\ pc = "call"
    /\ callers = <<>>
    /\ ret = <<>>
    /\ diff_count = 0
    /\ common_result = <<>>
    /\ left_count = 0
    /\ right_count = 0
    /\ common_count1 = 0
    /\ common_count2 = 0
    /\ common1 = <<>>
    /\ common2 = <<>>
    /\ i1 = 0
    /\ i2 = 0
    /\ blocks = <<>>
    /\ segments = <<>>
    /\ left_dups = <<>>
    /\ right_dups = <<>>
    /\ heap_log = <<>>
    /\ messages = <<>>
    /\ unique_lines = <<>>
    /\ invoked = FALSE
    /\ reports = <<>>
    /\ check = "ddrc_cfg"
    /\ fsp_i = 0
    /\ part = 0
    /\ nums = [fsp_cfg_left |-> 0, fsp_cfg_right |-> 0,
               fsp_msg_left |-> 0, fsp_msg_right |-> 0]
    /\ compared = <<[check |-> "ddrc_cfg", fsp |-> 0, part |-> 0]>>
    /\ check_ret = 0
    /\ main_ret = 0
    /\ argv = <<>>
    /\ exit_code = <<>>
    /\ value_diffs = <<>>
    /\ first_outcome = <<>>

inputsUnchanged == UNCHANGED <<cfg1, cfg2>>
scanUnchanged == UNCHANGED <<i1, i2, blocks, segments>>
dupsUnchanged == UNCHANGED <<left_dups, right_dups, invoked, reports>>
(* the state of main and of the check_* function that is running *)
runUnchanged ==
    UNCHANGED <<check, fsp_i, part, nums, compared, check_ret, main_ret>>

(* heap_log records every malloc (with the buffer it returned, or its     *)
(* failure) and every free, in program order                             *)
Mallocs == {k \in 1..Len(heap_log) : heap_log[k].op = "malloc"}
FreshBuffer(n) == Cardinality(Mallocs) + n
MallocEvent(ok, id) ==
    IF ok THEN [op |-> "malloc", buf |-> id]
    ELSE [op |-> "malloc_failed", buf |-> 0]
FreeEvent(id) == [op |-> "free", buf |-> id]

(* num1 != num2: unique display and common counting, the part shared by   *)
(* the three ways the unequal-length branch continues                     *)
Differencer ==
    /\ pc = "call"
    /\ Len(arg1) # Len(arg2)
    /\ left_count' = unique_count(arg1, arg2)
    /\ right_count' = unique_count(arg2, arg1)
    /\ common_count1' = count_common(arg1, arg2)
    /\ common_count2' = count_common(arg2, arg1)
    /\ unique_lines' = find_and_display_unique(arg1, arg2)

(* count_common_* returned -1: "Internal error", return -1 *)
CountMismatch ==
    /\ Differencer
    /\ common_count1' # common_count2'
    /\ ret' = <<StructuralError>>
    /\ pc' = "return"
    /\ inputsUnchanged /\ scanUnchanged /\ dupsUnchanged
    /\ runUnchanged
    /\ messages' = messages \o <<MsgStructural, MsgInternalError>>
    /\ UNCHANGED heap_log
    /\ UNCHANGED <<arg1, arg2, callers, diff_count, common_result,
                   common1, common2>>
    /\ UNCHANGED <<argv, exit_code, first_outcome>>
    /\ UNCHANGED value_diffs

(* common_count1 == 0: "No common registers found", return -1 *)
NoCommon ==
    /\ Differencer
    /\ common_count1' = common_count2'
    /\ common_count1' = 0
    /\ ret' = <<StructuralError>>
    /\ pc' = "return"
    /\ inputsUnchanged /\ scanUnchanged /\ dupsUnchanged
    /\ runUnchanged
    /\ messages' = messages \o <<MsgStructural, MsgNoCommon>>
    /\ UNCHANGED heap_log
    /\ UNCHANGED <<arg1, arg2, callers, diff_count, common_result,
                   common1, common2>>
    /\ UNCHANGED <<argv, exit_code, first_outcome>>
    /\ UNCHANGED value_diffs

(* common_count1 > 0: go on to the two malloc calls *)
CommonFound ==
    /\ Differencer
    /\ common_count1' = common_count2'
    /\ common_count1' > 0
    /\ pc' = "alloc"
    /\ inputsUnchanged /\ scanUnchanged /\ dupsUnchanged
    /\ runUnchanged
    /\ messages' = Append(messages, MsgStructural)
    /\ UNCHANGED heap_log
    /\ UNCHANGED <<arg1, arg2, callers, ret, diff_count, common_result,
                   common1, common2>>
    /\ UNCHANGED <<argv, exit_code, first_outcome>>
    /\ UNCHANGED value_diffs

(* mutant: the failure path frees nothing *)
AllocFailedLeaks ==
    /\ pc = "alloc"
    /\ \E ok1, ok2 \in BOOLEAN :
          /\ ~(ok1 /\ ok2)
          /\ heap_log' = heap_log
                \o <<MallocEvent(ok1, FreshBuffer(1)),
                     MallocEvent(ok2, FreshBuffer(IF ok1 THEN 2 ELSE 1))>>
    /\ ret' = <<StructuralError>>
    /\ pc' = "return"
    /\ inputsUnchanged /\ scanUnchanged /\ dupsUnchanged
    /\ runUnchanged
    /\ messages' = Append(messages, MsgAllocFailed)
    /\ UNCHANGED unique_lines
    /\ UNCHANGED <<arg1, arg2, callers, diff_count, common_result,
                   left_count, right_count, common_count1, common_count2,
                   common1, common2>>
    /\ UNCHANGED <<argv, exit_code, first_outcome>>
    /\ UNCHANGED value_diffs

(* one of the two malloc calls returned NULL: report, return -1 *)
AllocFailed ==
    /\ pc = "alloc"
    /\ \E ok1, ok2 \in BOOLEAN :
          /\ ~(ok1 /\ ok2)
          /\ heap_log' = heap_log
                \o <<MallocEvent(ok1, FreshBuffer(1)),
                     MallocEvent(ok2, FreshBuffer(IF ok1 THEN 2 ELSE 1))>>
                \o (IF ok1 THEN <<FreeEvent(FreshBuffer(1))>> ELSE <<>>)
                \o (IF ok2 THEN <<FreeEvent(FreshBuffer(IF ok1 THEN 2 ELSE 1))>>
                    ELSE <<>>)
    /\ ret' = <<StructuralError>>
    /\ pc' = "return"
    /\ inputsUnchanged /\ scanUnchanged /\ dupsUnchanged
    /\ runUnchanged
    /\ messages' = Append(messages, MsgAllocFailed)
    /\ UNCHANGED unique_lines
    /\ UNCHANGED <<arg1, arg2, callers, diff_count, common_result,
                   left_count, right_count, common_count1, common_count2,
                   common1, common2>>
    /\ UNCHANGED <<argv, exit_code, first_outcome>>
    /\ UNCHANGED value_diffs

(* both buffers allocated: extract_common_*, then the recursive call *)
Recurse ==
    /\ pc = "alloc"
    /\ common1' = extract_common(arg1, arg2)
    /\ common2' = extract_common(arg2, arg1)
    /\ heap_log' = heap_log \o <<MallocEvent(TRUE, FreshBuffer(1)),
                                  MallocEvent(TRUE, FreshBuffer(2))>>
    /\ callers' = Append(callers, [cfg1 |-> arg1, cfg2 |-> arg2,
                                   common1 |-> FreshBuffer(1),
                                   common2 |-> FreshBuffer(2)])
    /\ arg1' = common1'
    /\ arg2' = common2'
    /\ pc' = "call"
    /\ inputsUnchanged /\ scanUnchanged /\ dupsUnchanged
    /\ runUnchanged
    /\ UNCHANGED messages
    /\ UNCHANGED unique_lines
    /\ UNCHANGED <<ret, diff_count, common_result, left_count, right_count,
                   common_count1, common_count2>>
    /\ UNCHANGED <<argv, exit_code, first_outcome>>
    /\ UNCHANGED value_diffs

(* mutant: the parent hands the nested result on to its caller *)
NestedReturnPropagates ==
    /\ pc = "return"
    /\ callers # <<>>
    /\ common_result' = ret
    /\ ret' = ret
    /\ arg1' = callers[Len(callers)].cfg1
    /\ arg2' = callers[Len(callers)].cfg2
    /\ heap_log' = heap_log \o <<FreeEvent(callers[Len(callers)].common1),
                                  FreeEvent(callers[Len(callers)].common2)>>
    /\ callers' = SubSeq(callers, 1, Len(callers) - 1)
    /\ pc' = "return"
    /\ inputsUnchanged /\ scanUnchanged /\ dupsUnchanged
    /\ runUnchanged
    /\ UNCHANGED messages
    /\ UNCHANGED unique_lines
    /\ UNCHANGED <<diff_count, left_count, right_count, common_count1,
                   common_count2, common1, common2>>
    /\ UNCHANGED <<argv, exit_code, first_outcome>>
    /\ UNCHANGED value_diffs

(* the nested call has returned: summary, free both buffers, return -1 *)
NestedReturn ==
    /\ pc = "return"
    /\ callers # <<>>
    /\ common_result' = ret
    /\ ret' = <<StructuralError>>
    /\ arg1' = callers[Len(callers)].cfg1
    /\ arg2' = callers[Len(callers)].cfg2
    /\ heap_log' = heap_log \o <<FreeEvent(callers[Len(callers)].common1),
                                  FreeEvent(callers[Len(callers)].common2)>>
    /\ callers' = SubSeq(callers, 1, Len(callers) - 1)
    /\ pc' = "return"
    /\ inputsUnchanged /\ scanUnchanged /\ dupsUnchanged
    /\ runUnchanged
    /\ UNCHANGED messages
    /\ UNCHANGED unique_lines
    /\ UNCHANGED <<diff_count, left_count, right_count, common_count1,
                   common_count2, common1, common2>>
    /\ UNCHANGED <<argv, exit_code, first_outcome>>
    /\ UNCHANGED value_diffs

(* same length, same key order: positional value comparison, return 0 *)
IdenticalOrder ==
    /\ pc = "call"
    /\ Len(arg1) = Len(arg2)
    /\ same_order(arg1, arg2)
    /\ diff_count' = positional_diff_count(arg1, arg2)
    /\ ret' = <<SameOrder>>
    /\ pc' = "return"
    /\ inputsUnchanged /\ scanUnchanged /\ dupsUnchanged
    /\ runUnchanged
    /\ UNCHANGED messages
    /\ UNCHANGED unique_lines
    /\ UNCHANGED heap_log
    /\ UNCHANGED <<arg1, arg2, callers, common_result, left_count,
                   right_count, common_count1, common_count2, common1,
                   common2>>
    /\ UNCHANGED <<argv, exit_code, first_outcome>>
    /\ value_diffs' = positional_value_diffs(arg1, arg2)

(* the failing return stores the local count, 0, through diff_count_p *)
DifferentSetsWritesCount ==
    /\ pc = "call"
    /\ Len(arg1) = Len(arg2)
    /\ ~same_order(arg1, arg2)
    /\ ~all_present(arg1, arg2)
    /\ ret' = <<StructuralError>>
    /\ diff_count' = 0
    /\ pc' = "return"
    /\ inputsUnchanged /\ scanUnchanged /\ dupsUnchanged
    /\ runUnchanged
    /\ messages' = Append(messages, MsgDifferentSets)
    /\ UNCHANGED unique_lines
    /\ UNCHANGED heap_log
    /\ UNCHANGED <<arg1, arg2, callers, common_result,
                   left_count, right_count, common_count1, common_count2,
                   common1, common2>>
    /\ UNCHANGED <<argv, exit_code, first_outcome>>
    /\ UNCHANGED value_diffs

(* same length, different order, some key missing on a side: return -1 *)
DifferentSets ==
    /\ pc = "call"
    /\ Len(arg1) = Len(arg2)
    /\ ~same_order(arg1, arg2)
    /\ ~all_present(arg1, arg2)
    /\ ret' = <<StructuralError>>
    /\ pc' = "return"
    /\ inputsUnchanged /\ scanUnchanged /\ dupsUnchanged
    /\ runUnchanged
    /\ messages' = Append(messages, MsgDifferentSets)
    /\ UNCHANGED unique_lines
    /\ UNCHANGED heap_log
    /\ UNCHANGED <<arg1, arg2, callers, diff_count, common_result,
                   left_count, right_count, common_count1, common_count2,
                   common1, common2>>
    /\ UNCHANGED <<argv, exit_code, first_outcome>>
    /\ UNCHANGED value_diffs

(* same length, different order, all keys present: "int i1 = 0, i2 = 0" *)
StartScan ==
    /\ pc = "call"
    /\ Len(arg1) = Len(arg2)
    /\ ~same_order(arg1, arg2)
    /\ all_present(arg1, arg2) = TRUE
    /\ i1' = 0
    /\ i2' = 0
    /\ blocks' = <<>>
    /\ segments' = <<>>
    /\ pc' = "scan"
    /\ inputsUnchanged /\ dupsUnchanged
    /\ runUnchanged
    /\ messages' = Append(messages, MsgDifferentOrder)
    /\ UNCHANGED unique_lines
    /\ UNCHANGED heap_log
    /\ UNCHANGED <<arg1, arg2, callers, ret, diff_count, common_result,
                   left_count, right_count, common_count1, common_count2,
                   common1, common2>>
    /\ UNCHANGED <<argv, exit_code, first_outcome>>
    /\ UNCHANGED value_diffs

(* one iteration of the outer while loop, keys at the cursors equal *)
ScanMatch ==
    /\ pc = "scan"
    /\ i1 < Len(arg1) /\ i2 < Len(arg2)
    /\ At(arg1, i1).reg = At(arg2, i2).reg
    /\ i1' = i1 + matched_run(arg1, arg2, i1, i2)
    /\ i2' = i2 + matched_run(arg1, arg2, i1, i2)
    /\ segments' = Append(segments, Segment("matched", i1, i1', i2, i2'))
    /\ inputsUnchanged /\ dupsUnchanged
    /\ runUnchanged
    /\ UNCHANGED messages
    /\ UNCHANGED unique_lines
    /\ UNCHANGED heap_log
    /\ UNCHANGED <<pc, arg1, arg2, callers, ret, diff_count, common_result,
                   left_count, right_count, common_count1, common_count2,
                   common1, common2, blocks>>
    /\ UNCHANGED <<argv, exit_code, first_outcome>>
    /\ UNCHANGED value_diffs

(* the right extension looks ahead from the left cursor as it was when   *)
(* the mismatch was found                                                 *)
ScanMismatchIndependent ==
    /\ pc = "scan"
    /\ i1 < Len(arg1) /\ i2 < Len(arg2)
    /\ At(arg1, i1).reg # At(arg2, i2).reg
    /\ i1' = extend_block(arg1, i1, arg2, i2)
    /\ i2' = extend_block(arg2, i2, arg1, i1)
    /\ blocks' = IF i1 < i1' \/ i2 < i2'
                 THEN Append(blocks, [left_start |-> i1, left_end |-> i1',
                                      right_start |-> i2, right_end |-> i2'])
                 ELSE blocks
    /\ segments' = IF i1 < i1' \/ i2 < i2'
                   THEN Append(segments, Segment("block", i1, i1', i2, i2'))
                   ELSE segments
    /\ inputsUnchanged /\ dupsUnchanged
    /\ runUnchanged
    /\ UNCHANGED messages
    /\ UNCHANGED unique_lines
    /\ UNCHANGED heap_log
    /\ UNCHANGED <<pc, arg1, arg2, callers, ret, diff_count, common_result,
                   left_count, right_count, common_count1, common_count2,
                   common1, common2>>
    /\ UNCHANGED <<argv, exit_code, first_outcome>>
    /\ UNCHANGED value_diffs

(* one iteration of the outer while loop, keys at the cursors differ:     *)
(* extend left against right[i2..], then right against left[new i1..],   *)
(* and display the block when a side advanced                            *)
ScanMismatch ==
    /\ pc = "scan"
    /\ i1 < Len(arg1) /\ i2 < Len(arg2)
    /\ At(arg1, i1).reg # At(arg2, i2).reg
    /\ i1' = extend_block(arg1, i1, arg2, i2)
    /\ i2' = extend_block(arg2, i2, arg1, i1')
    /\ blocks' = IF i1 < i1' \/ i2 < i2'
                 THEN Append(blocks, [left_start |-> i1, left_end |-> i1',
                                      right_start |-> i2, right_end |-> i2'])
                 ELSE blocks
    /\ segments' = IF i1 < i1' \/ i2 < i2'
                   THEN Append(segments, Segment("block", i1, i1', i2, i2'))
                   ELSE segments
    /\ inputsUnchanged /\ dupsUnchanged
    /\ runUnchanged
    /\ UNCHANGED messages
    /\ UNCHANGED unique_lines
    /\ UNCHANGED heap_log
    /\ UNCHANGED <<pc, arg1, arg2, callers, ret, diff_count, common_result,
                   left_count, right_count, common_count1, common_count2,
                   common1, common2>>
    /\ UNCHANGED <<argv, exit_code, first_outcome>>
    /\ UNCHANGED value_diffs

(* a cursor reached its list end: trailing entries, keyed value           *)
(* comparison, return 1                                                   *)
ScanEnd ==
    /\ pc = "scan"
    /\ ~(i1 < Len(arg1) /\ i2 < Len(arg2))
    /\ diff_count' = keyed_diff_count(arg1, arg2)
    /\ ret' = <<DifferentOrder>>
    /\ pc' = "return"
    /\ segments' = IF i1 < Len(arg1) \/ i2 < Len(arg2)
                   THEN Append(segments, Segment("trailing", i1, Len(arg1),
                                                 i2, Len(arg2)))
                   ELSE segments
    /\ inputsUnchanged /\ dupsUnchanged
    /\ UNCHANGED <<i1, i2, blocks>>
    /\ runUnchanged
    /\ UNCHANGED messages
    /\ UNCHANGED unique_lines
    /\ UNCHANGED heap_log
    /\ UNCHANGED <<arg1, arg2, callers, common_result, left_count,
                   right_count, common_count1, common_count2, common1,
                   common2>>
    /\ UNCHANGED <<argv, exit_code, first_outcome>>
    /\ value_diffs' = keyed_value_diffs(arg1, arg2)

(* check_ddrc_cfg / check_ddrphy_pie after the comparison returned:       *)
(* find_duplicates_* on both lists, check_duplicate_interference when the *)
(* three conditions hold, "return 0" into main, which ors it into ret     *)
FindDuplicates ==
    /\ pc = "return"
    /\ callers = <<>>
    /\ check \in {"ddrc_cfg", "ddrphy_pie"}
    /\ left_dups' = find_duplicates(cfg1)
    /\ right_dups' = find_duplicates(cfg2)
    /\ invoked' = interference_wanted(left_dups', right_dups', ret[1],
                                      diff_count, Len(cfg1), Len(cfg2))
    /\ reports' = IF invoked'
                  THEN check_duplicate_interference(cfg1, cfg2, left_dups',
                                                    right_dups')
                  ELSE <<>>
    /\ check_ret' = 0
    /\ main_ret' = main_ret
    /\ pc' = "done"
    /\ inputsUnchanged /\ scanUnchanged
    /\ UNCHANGED <<check, fsp_i, part, nums, compared>>
    /\ UNCHANGED messages
    /\ UNCHANGED unique_lines
    /\ UNCHANGED heap_log
    /\ UNCHANGED <<arg1, arg2, callers, ret, diff_count, common_result,
                   left_count, right_count, common_count1, common_count2,
                   common1, common2>>
    /\ UNCHANGED <<argv, exit_code, first_outcome>>
    /\ UNCHANGED value_diffs

Next ==
    \/ CountMismatch
    \/ NoCommon
    \/ CommonFound
    \/ AllocFailed
    \/ Recurse
    \/ NestedReturn
    \/ IdenticalOrder
    \/ DifferentSets
    \/ StartScan
    \/ ScanMatch
    \/ ScanMismatch
    \/ ScanEnd
    \/ FindDuplicates

Spec == Init /\ [][Next]_vars

(* ------------------------------- main ---------------------------------- *)
(* most set-points (fsp_cfg_num, fsp_msg_num) of a configuration *)
MaxFsp == 1

(* table contents for a whole run of main: one pair for each way a        *)
(* comparison can go                                                      *)
TableInputs ==
    {<<<<>>, <<>>>>,
     <<<<Rec(1, 1), Rec(2, 1)>>, <<Rec(1, 1), Rec(2, 2)>>>>,
     <<<<Rec(1, 1)>>, <<Rec(1, 1), Rec(1, 1)>>>>,
     <<<<Rec(1, 1)>>, <<Rec(2, 1), Rec(2, 1)>>>>,
     <<<<Rec(1, 1), Rec(2, 1)>>, <<Rec(1, 2)>>>>,
     <<<<Rec(1, 1), Rec(2, 1)>>, <<Rec(1, 1), Rec(1, 1)>>>>,
     <<<<Rec(1, 1), Rec(2, 1), Rec(1, 1)>>,
       <<Rec(1, 2), Rec(2, 1), Rec(2, 2)>>>>,
     <<<<Rec(1, 1), Rec(2, 2)>>, <<Rec(2, 2), Rec(1, 1)>>>>}

Counts ==
    [fsp_cfg_left : 0..MaxFsp, fsp_cfg_right : 0..MaxFsp,
     fsp_msg_left : 0..MaxFsp, fsp_msg_right : 0..MaxFsp]

(* what an "int diff_count;" without initialiser may hold *)
Indeterminate == {0, 1}

(* "ret |= check_...()" for the values 0 and -1 *)
or_ret(a, b) == IF a = -1 \/ b = -1 THEN -1 ELSE 0

(* main has called check_ddrc_cfg, which calls the comparator *)
RunInit ==
    /\ \E in \in TableInputs : cfg1 = in[1] /\ cfg2 = in[2]
    /\ arg1 = cfg1
    /\ arg2 = cfg2
    /\ pc = "call"
    /\ callers = <<>>
    /\ ret = <<>>
    /\ diff_count = 0
    /\ common_result = <<>>
    /\ left_count = 0
    /\ right_count = 0
    /\ common_count1 = 0
    /\ common_count2 = 0
    /\ common1 = <<>>
    /\ common2 = <<>>
    /\ i1 = 0
    /\ i2 = 0
    /\ blocks = <<>>
    /\ segments = <<>>
    /\ left_dups = <<>>
    /\ right_dups = <<>>
    /\ heap_log = <<>>
    /\ messages = <<>>
    /\ unique_lines = <<>>
    /\ invoked = FALSE
    /\ reports = <<>>
    /\ check = "ddrc_cfg"
    /\ fsp_i = 0
    /\ part = 0
    /\ nums \in Counts
    /\ compared = <<[check |-> "ddrc_cfg", fsp |-> 0, part |-> 0]>>
    /\ check_ret = 0
    /\ main_ret = 0
    /\ argv = <<>>
    /\ exit_code = <<>>
    /\ value_diffs = <<>>
    /\ first_outcome = <<>>

(* a top-level call of compare_*_cfg_arrays on the table pair in, with    *)
(* the caller's diff_count holding dc: fresh locals, empty output         *)
compare_table(in, dc) ==
    /\ cfg1' = in[1]
    /\ cfg2' = in[2]
    /\ arg1' = in[1]
    /\ arg2' = in[2]
    /\ pc' = "call"
    /\ callers' = <<>>
    /\ ret' = <<>>
    /\ diff_count' = dc
    /\ common_result' = <<>>
    /\ left_count' = 0
    /\ right_count' = 0
    /\ common_count1' = 0
    /\ common_count2' = 0
    /\ common1' = <<>>
    /\ common2' = <<>>
    /\ i1' = 0
    /\ i2' = 0
    /\ blocks' = <<>>
    /\ segments' = <<>>
    /\ left_dups' = <<>>
    /\ right_dups' = <<>>
    /\ heap_log' = <<>>
    /\ messages' = <<>>
    /\ unique_lines' = <<>>
    /\ invoked' = FALSE
    /\ reports' = <<>>
    /\ value_diffs' = <<>>

(* everything but the state of main and of the running check_* function *)
tableUnchanged ==
    UNCHANGED <<cfg1, cfg2, arg1, arg2, callers, ret, diff_count,
                common_result, left_count, right_count, common_count1,
                common_count2, common1, common2, i1, i2, blocks,
                left_dups, right_dups, heap_log, messages, unique_lines,
                invoked, reports, value_diffs, segments>>

Table(c, i, p) == [check |-> c, fsp |-> i, part |-> p]

(* main calls check_fsp_cfg: "Number of FSP entries do not match!",       *)
(* return -1, or enter the loop over the set-points                       *)
check_fsp_cfg ==
    /\ pc = "done"
    /\ check = "ddrc_cfg"
    /\ check' = "fsp_cfg"
    /\ fsp_i' = 0
    /\ IF nums.fsp_cfg_left # nums.fsp_cfg_right
       THEN /\ pc' = "done"
            /\ check_ret' = -1
            /\ main_ret' = or_ret(main_ret, -1)
       ELSE /\ pc' = "loop"
            /\ check_ret' = 0
            /\ main_ret' = main_ret
    /\ UNCHANGED <<part, nums, compared>>
    /\ tableUnchanged
    /\ UNCHANGED <<argv, exit_code, first_outcome>>

(* one iteration of the loop of check_fsp_cfg up to the comparator call *)
fsp_cfg_compare ==
    /\ pc = "loop"
    /\ check = "fsp_cfg"
    /\ fsp_i < nums.fsp_cfg_left
    /\ \E in \in TableInputs : compare_table(in, 0)
    /\ compared' = Append(compared, Table("fsp_cfg", fsp_i, 0))
    /\ UNCHANGED <<check, fsp_i, part, nums, check_ret, main_ret>>
    /\ UNCHANGED <<argv, exit_code, first_outcome>>

(* the comparator returned: "if (fsp_result < 0) ret = -1", next i *)
fsp_cfg_next ==
    /\ pc = "return"
    /\ callers = <<>>
    /\ check = "fsp_cfg"
    /\ check_ret' = IF ret[1] < 0 THEN -1 ELSE check_ret
    /\ fsp_i' = fsp_i + 1
    /\ pc' = "loop"
    /\ UNCHANGED <<check, part, nums, compared, main_ret>>
    /\ tableUnchanged
    /\ UNCHANGED <<argv, exit_code, first_outcome>>

(* the loop of check_fsp_cfg has ended: "return ret" into main *)
fsp_cfg_return ==
    /\ pc = "loop"
    /\ check = "fsp_cfg"
    /\ fsp_i >= nums.fsp_cfg_left
    /\ pc' = "done"
    /\ main_ret' = or_ret(main_ret, check_ret)
    /\ UNCHANGED <<check, fsp_i, part, nums, compared, check_ret>>
    /\ tableUnchanged
    /\ UNCHANGED <<argv, exit_code, first_outcome>>

(* main calls check_ddrphy_cfg, which calls the comparator *)
check_ddrphy_cfg ==
    /\ pc = "done"
    /\ check = "fsp_cfg"
    /\ \E in \in TableInputs : compare_table(in, 0)
    /\ check' = "ddrphy_cfg"
    /\ compared' = Append(compared, Table("ddrphy_cfg", 0, 0))
    /\ UNCHANGED <<fsp_i, part, nums, check_ret, main_ret>>
    /\ UNCHANGED <<argv, exit_code, first_outcome>>

(* check_ddrphy_cfg / check_ddrphy_trained_csr after the comparator       *)
(* returned: summary, "return 0" into main                                *)
check_return ==
    /\ pc = "return"
    /\ callers = <<>>
    /\ check \in {"ddrphy_cfg", "ddrphy_trained_csr"}
    /\ pc' = "done"
    /\ check_ret' = 0
    /\ main_ret' = or_ret(main_ret, 0)
    /\ UNCHANGED <<check, fsp_i, part, nums, compared>>
    /\ tableUnchanged
    /\ UNCHANGED <<argv, exit_code, first_outcome>>

(* main calls check_fsp_msg: "Number of FSP message entries do not        *)
(* match!", return -1, or enter the loop over the set-point messages      *)
check_fsp_msg ==
    /\ pc = "done"
    /\ check = "ddrphy_cfg"
    /\ check' = "fsp_msg"
    /\ fsp_i' = 0
    /\ part' = 0
    /\ IF nums.fsp_msg_left # nums.fsp_msg_right
       THEN /\ pc' = "done"
            /\ check_ret' = -1
            /\ main_ret' = or_ret(main_ret, -1)
       ELSE /\ pc' = "loop"
            /\ check_ret' = 0
            /\ main_ret' = main_ret
    /\ UNCHANGED <<nums, compared>>
    /\ tableUnchanged
    /\ UNCHANGED <<argv, exit_code, first_outcome>>

(* one iteration of the loop of check_fsp_msg up to the first comparator  *)
(* call (fsp_phy_cfg); "int diff_count;" has no initialiser               *)
fsp_msg_compare ==
    /\ pc = "loop"
    /\ check = "fsp_msg"
    /\ fsp_i < nums.fsp_msg_left
    /\ \E in \in TableInputs, dc \in Indeterminate : compare_table(in, dc)
    /\ part' = 0
    /\ compared' = Append(compared, Table("fsp_msg", fsp_i, 0))
    /\ UNCHANGED <<check, fsp_i, nums, check_ret, main_ret>>
    /\ UNCHANGED <<argv, exit_code, first_outcome>>

(* a comparator call of check_fsp_msg returned: "if (result < 0) ret =    *)
(* -1", summary, then the call for the next sub-table (fsp_phy_msgh_cfg,  *)
(* fsp_phy_pie_cfg) with the same diff_count variable                     *)
fsp_msg_next_part ==
    /\ pc = "return"
    /\ callers = <<>>
    /\ check = "fsp_msg"
    /\ part < 2
    /\ check_ret' = IF ret[1] < 0 THEN -1 ELSE check_ret
    /\ \E in \in TableInputs : compare_table(in, diff_count)
    /\ part' = part + 1
    /\ compared' = Append(compared, Table("fsp_msg", fsp_i, part + 1))
    /\ UNCHANGED <<check, fsp_i, nums, main_ret>>
    /\ UNCHANGED <<argv, exit_code, first_outcome>>

(* the third comparator call of the iteration returned: next i *)
fsp_msg_next ==
    /\ pc = "return"
    /\ callers = <<>>
    /\ check = "fsp_msg"
    /\ part = 2
    /\ check_ret' = IF ret[1] < 0 THEN -1 ELSE check_ret
    /\ fsp_i' = fsp_i + 1
    /\ pc' = "loop"
    /\ UNCHANGED <<check, part, nums, compared, main_ret>>
    /\ tableUnchanged
    /\ UNCHANGED <<argv, exit_code, first_outcome>>

(* the loop of check_fsp_msg has ended: "return ret" into main *)
fsp_msg_return ==
    /\ pc = "loop"
    /\ check = "fsp_msg"
    /\ fsp_i >= nums.fsp_msg_left
    /\ pc' = "done"
    /\ main_ret' = or_ret(main_ret, check_ret)
    /\ UNCHANGED <<check, fsp_i, part, nums, compared, check_ret>>
    /\ tableUnchanged
    /\ UNCHANGED <<argv, exit_code, first_outcome>>

(* main calls check_ddrphy_trained_csr, which calls the comparator *)
check_ddrphy_trained_csr ==
    /\ pc = "done"
    /\ check = "fsp_msg"
    /\ \E in \in TableInputs : compare_table(in, 0)
    /\ check' = "ddrphy_trained_csr"
    /\ compared' = Append(compared, Table("ddrphy_trained_csr", 0, 0))
    /\ UNCHANGED <<fsp_i, part, nums, check_ret, main_ret>>
    /\ UNCHANGED <<argv, exit_code, first_outcome>>

(* main calls check_ddrphy_pie, which calls the comparator *)
check_ddrphy_pie ==
    /\ pc = "done"
    /\ check = "ddrphy_trained_csr"
    /\ \E in \in TableInputs : compare_table(in, 0)
    /\ check' = "ddrphy_pie"
    /\ compared' = Append(compared, Table("ddrphy_pie", 0, 0))
    /\ UNCHANGED <<fsp_i, part, nums, check_ret, main_ret>>
    /\ UNCHANGED <<argv, exit_code, first_outcome>>

(* mutant: main gives up as soon as a check has returned an error *)
main_return_on_error ==
    /\ pc = "done"
    /\ check = "ddrphy_pie" \/ main_ret # 0
    /\ pc' = "exit"
    /\ runUnchanged
    /\ tableUnchanged
    /\ exit_code' = <<0>>
    /\ UNCHANGED <<argv, first_outcome>>

(* every check has returned: total sizes, "COMPARISON COMPLETE", return 0 *)
main_return ==
    /\ pc = "done"
    /\ check = "ddrphy_pie"
    /\ pc' = "exit"
    /\ runUnchanged
    /\ tableUnchanged
    /\ exit_code' = <<0>>
    /\ UNCHANGED <<argv, first_outcome>>

RunNext ==
    \/ Next
    \/ check_fsp_cfg
    \/ fsp_cfg_compare
    \/ fsp_cfg_next
    \/ fsp_cfg_return
    \/ check_ddrphy_cfg
    \/ check_return
    \/ check_fsp_msg
    \/ fsp_msg_compare
    \/ fsp_msg_next_part
    \/ fsp_msg_next
    \/ fsp_msg_return
    \/ check_ddrphy_trained_csr
    \/ check_ddrphy_pie
    \/ main_return

RunSpec == RunInit /\ [][RunNext]_vars

(* the program is one thread that keeps executing: a step that can be     *)
(* taken is taken                                                         *)
FairRunSpec == RunSpec /\ WF_vars(RunNext)

(* ------------- the comparator called again, arguments swapped --------- *)
(* compare_*_cfg_arrays(cfg1, num1, cfg2, num2, ..) has returned r with   *)
(* the caller's diff_count at d; it is called again as (cfg2, num2, cfg1, *)
(* num1, ..) with a diff_count of 0, as check_ddrc_cfg initialises it;    *)
(* whether a malloc of the first call returned NULL is kept with r and d  *)
compare_swapped ==
    /\ pc = "return"
    /\ callers = <<>>
    /\ first_outcome = <<>>
    /\ first_outcome' =
           <<[ret |-> ret[1], diff_count |-> diff_count,
              malloc_failed |-> \E k \in 1..Len(heap_log) :
                                   heap_log[k].op = "malloc_failed"]>>
    /\ compare_table(<<cfg2, cfg1>>, 0)
    /\ runUnchanged
    /\ UNCHANGED <<argv, exit_code>>

SwapNext == Next \/ compare_swapped

SwapSpec == Init /\ [][SwapNext]_vars

(* ---------------- main from its entry: the command line ---------------- *)
MaxArgs == 2

(* argv[1..argc-1]; "--verbose" stands for any string main does not know *)
Options == {"--list-duplicates", "--help", "-h", "--verbose"}

ArgLists == UNION {[1..n -> Options] : n \in 0..MaxArgs}

(* the first argument at which the loop of main returns, 0 if it runs out *)
first_returning(args) ==
    IF \A k \in 1..Len(args) : args[k] = "--list-duplicates"
    THEN 0
    ELSE CHOOSE k \in 1..Len(args) :
             /\ args[k] # "--list-duplicates"
             /\ \A j \in 1..(k - 1) : args[j] = "--list-duplicates"

(* main is entered with a command line; no table has been looked at *)
MainInit ==
    /\ argv \in ArgLists
    /\ pc = "main"
    /\ cfg1 = <<>>
    /\ cfg2 = <<>>
    /\ arg1 = <<>>
    /\ arg2 = <<>>
    /\ callers = <<>>
    /\ ret = <<>>
    /\ diff_count = 0
    /\ common_result = <<>>
    /\ left_count = 0
    /\ right_count = 0
    /\ common_count1 = 0
    /\ common_count2 = 0
    /\ common1 = <<>>
    /\ common2 = <<>>
    /\ i1 = 0
    /\ i2 = 0
    /\ blocks = <<>>
    /\ segments = <<>>
    /\ left_dups = <<>>
    /\ right_dups = <<>>
    /\ heap_log = <<>>
    /\ messages = <<>>
    /\ unique_lines = <<>>
    /\ invoked = FALSE
    /\ reports = <<>>
    /\ check = "main"
    /\ fsp_i = 0
    /\ part = 0
    /\ nums \in Counts
    /\ compared = <<>>
    /\ check_ret = 0
    /\ main_ret = 0
    /\ exit_code = <<>>
    /\ value_diffs = <<>>
    /\ first_outcome = <<>>

(* the argument loop treats "-h" as an unknown option *)
parse_arguments_long_help_only ==
    /\ pc = "main"
    /\ IF first_returning(argv) = 0
       THEN /\ \E in \in TableInputs : compare_table(in, 0)
            /\ check' = "ddrc_cfg"
            /\ compared' = <<Table("ddrc_cfg", 0, 0)>>
            /\ exit_code' = exit_code
       ELSE /\ pc' = "exit"
            /\ exit_code' = IF argv[first_returning(argv)] = "--help"
                            THEN <<0>>
                            ELSE <<1>>
            /\ UNCHANGED <<check, compared>>
            /\ tableUnchanged
    /\ UNCHANGED <<fsp_i, part, nums, check_ret, main_ret, argv,
                   first_outcome>>

(* the argument loop of main: "--help"/"-h" return 0, an unknown option   *)
(* returns 1, otherwise main goes on to "ret = check_ddrc_cfg()"          *)
parse_arguments ==
    /\ pc = "main"
    /\ IF first_returning(argv) = 0
       THEN /\ \E in \in TableInputs : compare_table(in, 0)
            /\ check' = "ddrc_cfg"
            /\ compared' = <<Table("ddrc_cfg", 0, 0)>>
            /\ exit_code' = exit_code
       ELSE /\ pc' = "exit"
            /\ exit_code' = IF argv[first_returning(argv)] \in {"--help", "-h"}
                            THEN <<0>>
                            ELSE <<1>>
            /\ UNCHANGED <<check, compared>>
            /\ tableUnchanged
    /\ UNCHANGED <<fsp_i, part, nums, check_ret, main_ret, argv,
                   first_outcome>>

MainNext == parse_arguments \/ RunNext

MainSpec == MainInit /\ [][MainNext]_vars

(* ======================== properties =================================== *)
KeysOf(cfg) == {cfg[k].reg : k \in 1..Len(cfg)}
DistinctKeys(cfg) ==
    \A i, j \in 1..Len(cfg) : i # j => cfg[i].reg # cfg[j].reg
Occurrences(cfg, reg) == {i \in 0..(Len(cfg) - 1) : At(cfg, i).reg = reg}
NoMallocFailed == \A k \in 1..Len(heap_log) : heap_log[k].op # "malloc_failed"

(* the outermost call has returned to check_ddrc_cfg *)
TopLevelReturned == callers = <<>> /\ pc \in {"return", "done"}
(* the unequal-length branch of the outermost call has counted *)
DifferencerRan ==
    /\ Len(cfg1) # Len(cfg2)
    /\ pc # "call" \/ callers # <<>>

(* C1: a list compared against itself returns 0 (same order) with        *)
(* diff_count 0, for every list, empty or with repeated keys             *)
C1_SelfCompare ==
    (cfg1 = cfg2 /\ TopLevelReturned) =>
        (ret = <<SameOrder>> /\ diff_count = 0)

C1_Witness ==
    /\ cfg1 = cfg2
    /\ TopLevelReturned
    /\ Len(cfg1) >= 2
    /\ ~DistinctKeys(cfg1)
    /\ \E i, j \in 1..Len(cfg1) :
          cfg1[i].reg = cfg1[j].reg /\ cfg1[i].val # cfg1[j].val

(* The scan loop is deterministic and the cursors are its only changing  *)
(* state, so the comparison returns exactly when the loop never reaches  *)
(* an iteration that leaves both cursors where they are.  ScanStuck is   *)
(* such a state: the keys at the cursors differ, and each is found in    *)
(* the other list's lookahead window at once, so neither cursor moves.   *)
ScanStuck ==
    /\ pc = "scan"
    /\ i1 < Len(arg1) /\ i2 < Len(arg2)
    /\ At(arg1, i1).reg # At(arg2, i2).reg
    /\ extend_block(arg1, i1, arg2, i2) = i1
    /\ extend_block(arg2, i2, arg1, i1) = i2

(* C2: a list with pairwise distinct keys compared against a reordering  *)
(* of it (values possibly changed) returns 1 with diff_count the number  *)
(* of keys whose value differs: the comparison does not get stuck, and   *)
(* what it returns is 1 with that count                                  *)
ValueOf(cfg, reg) == At(cfg, FirstMatch(reg, cfg)).val
ChangedKeys(a, b) ==
    Cardinality({k \in KeysOf(a) : ValueOf(a, k) # ValueOf(b, k)})
IsReordering(a, b) ==
    /\ Len(a) = Len(b)
    /\ DistinctKeys(a) /\ DistinctKeys(b)
    /\ KeysOf(a) = KeysOf(b)
    /\ ~same_order(a, b)

C2_PermutationReordered ==
    IsReordering(cfg1, cfg2) =>
        (/\ ~ScanStuck
         /\ TopLevelReturned =>
               (/\ ret = <<DifferentOrder>>
                /\ diff_count = ChangedKeys(cfg1, cfg2)))

(* C3: the two-cursor scan terminates: every iteration short of the end  *)
(* of a list advances a cursor, and the call that scanned returns 1 with *)
(* a cursor at its list length                                           *)
ScanExhausted == pc = "scan" /\ (i1 = Len(arg1) \/ i2 = Len(arg2))
ScanAdvances ==
    IF At(arg1, i1).reg = At(arg2, i2).reg
    THEN matched_run(arg1, arg2, i1, i2) > 0
    ELSE \/ extend_block(arg1, i1, arg2, i2) > i1
         \/ extend_block(arg2, i2, arg1,
                         extend_block(arg1, i1, arg2, i2)) > i2
ScanReturned ==
    /\ pc = "return"
    /\ Len(arg1) = Len(arg2)
    /\ ~same_order(arg1, arg2)
    /\ all_present(arg1, arg2)

C3_ScanTerminates ==
    /\ pc = "scan" => (ScanExhausted \/ ScanAdvances)
    /\ ScanReturned =>
          (/\ ret = <<DifferentOrder>>
           /\ i1 = Len(arg1) \/ i2 = Len(arg2))

(* C4: the reorder example returns 1 with diff_count 1 and exactly one   *)
(* block, covering indices 0..1 on both sides: the comparison does not   *)
(* get stuck, and what it returns is that result                         *)
C4_ReorderExample ==
    (cfg1 = ExampleReorderLeft /\ cfg2 = ExampleReorderRight) =>
        (/\ ~ScanStuck
         /\ TopLevelReturned =>
               (/\ ret = <<DifferentOrder>>
                /\ diff_count = 1
                /\ blocks = <<[left_start |-> 0, left_end |-> 2,
                               right_start |-> 0, right_end |-> 2]>>))

(* C5: left of length 3, right of length 2, every right key in left:     *)
(* the call returns -1 and, when the values of the shared keys match,    *)
(* the nested comparison returned 0                                      *)
SharedValuesMatch(a, b) ==
    \A i \in 1..Len(a), j \in 1..Len(b) :
        a[i].reg = b[j].reg => a[i].val = b[j].val

C5_SubsetExample ==
    (/\ Len(cfg1) = 3 /\ Len(cfg2) = 2
     /\ KeysOf(cfg2) \subseteq KeysOf(cfg1)
     /\ NoMallocFailed
     /\ TopLevelReturned)
        => (/\ ret = <<StructuralError>>
            /\ SharedValuesMatch(cfg1, cfg2) => common_result = <<SameOrder>>)

(* C6: left-only + common = left length, right-only + common = right     *)
(* length, and extracted common sublists have equal length               *)
C6_Accounting ==
    DifferencerRan =>
        (/\ left_count + common_count1 = Len(cfg1)
         /\ right_count + common_count2 = Len(cfg2)
         /\ (callers # <<>> \/ common_result # <<>>) =>
               (/\ Len(common1) = Len(common2)
                /\ Len(common1) = common_count1))

C6_Witness ==
    /\ DifferencerRan
    /\ common_result # <<>>
    /\ left_count > 0
    /\ ~DistinctKeys(cfg1)
    /\ Len(common1) >= 2

(* C7: the common count taken over the left list equals the one taken    *)
(* over the right list, repeated keys included                           *)
C7_CommonCountsAgree ==
    DifferencerRan => common_count1 = common_count2

(* C8: a key occurring n > 1 times (n within the group cap) has exactly  *)
(* one duplicate group, holding all its (index, value) pairs in          *)
(* increasing index order                                                *)
IsGroupOf(g, cfg, reg) ==
    /\ g.reg = reg
    /\ Len(g.indices) = Cardinality(Occurrences(cfg, reg))
    /\ Len(g.values) = Len(g.indices)
    /\ \A k \in 1..Len(g.indices) :
          /\ g.indices[k] \in Occurrences(cfg, reg)
          /\ g.values[k] = At(cfg, g.indices[k]).val
          /\ k > 1 => g.indices[k - 1] < g.indices[k]

OneCompleteGroup(cfg, dups, reg) ==
    /\ Cardinality({d \in 1..Len(dups) : dups[d].reg = reg}) = 1
    /\ \A d \in 1..Len(dups) :
          dups[d].reg = reg => IsGroupOf(dups[d], cfg, reg)

Repeated(cfg) ==
    {reg \in KeysOf(cfg) :
        /\ Cardinality(Occurrences(cfg, reg)) > 1
        /\ Cardinality(Occurrences(cfg, reg)) <= MaxOccurrences}

EarlierRepeated(cfg, reg) ==
    {r \in KeysOf(cfg) :
        /\ Cardinality(Occurrences(cfg, r)) > 1
        /\ \E i \in Occurrences(cfg, r) :
              \A j \in Occurrences(cfg, reg) : i < j}

WithinRoom(cfg) ==
    {reg \in Repeated(cfg) :
        /\ Cardinality(EarlierRepeated(cfg, reg)) < MaxDups
        /\ \A r \in KeysOf(cfg) :
              Cardinality(Occurrences(cfg, r)) <= MaxOccurrences}

C9_UnequalLengthStructural ==
    (Len(cfg1) # Len(cfg2) /\ TopLevelReturned) => ret = <<StructuralError>>

C9_Witness ==
    /\ Len(cfg1) # Len(cfg2)
    /\ TopLevelReturned
    /\ common_result = <<DifferentOrder>>
    /\ diff_count > 0

(* C10: equal length with a positional key mismatch: -1 whenever the     *)
(* key multisets differ, 1 only when the key multisets are equal         *)
SameKeyMultiset(a, b) ==
    \A reg \in KeysOf(a) \cup KeysOf(b) :
        Cardinality(Occurrences(a, reg)) = Cardinality(Occurrences(b, reg))
PositionalMismatch ==
    Len(cfg1) = Len(cfg2) /\ ~same_order(cfg1, cfg2)

KeysAligned(a, b) ==
    /\ Len(a) = Len(b)
    /\ \A i \in 1..Len(a) : a[i].reg = b[i].reg
ValueMismatches(a, b) == {i \in 1..Len(a) : a[i].val # b[i].val}

CountsDisagreed ==
    /\ DifferencerRan
    /\ TopLevelReturned
    /\ common_count1 # common_count2

C12_CountDisagreementDistinct ==
    CountsDisagreed =>
        (/\ heap_log = <<>>
         /\ common_result = <<>>
         /\ ret # <<StructuralError>>)

(* C14: whenever a comparator call has returned, every buffer it         *)
(* allocated has been freed exactly once, every free releases a buffer   *)
(* allocated before it, and the only buffers still allocated are those   *)
(* of the calls still waiting for a nested comparison                    *)
Allocated == {heap_log[k].buf : k \in Mallocs}
Frees(buf) ==
    {k \in 1..Len(heap_log) :
        heap_log[k].op = "free" /\ heap_log[k].buf = buf}
FreedBuffers ==
    {heap_log[k].buf :
        k \in {j \in 1..Len(heap_log) : heap_log[j].op = "free"}}
OwnedByCallers ==
    UNION {{callers[f].common1, callers[f].common2} : f \in 1..Len(callers)}
FreesFollowMallocs ==
    \A k \in 1..Len(heap_log) :
        heap_log[k].op = "free" =>
            \E j \in 1..(k - 1) :
                heap_log[j].op = "malloc" /\ heap_log[j].buf = heap_log[k].buf

C14_SublistsFreedOnce ==
    /\ FreesFollowMallocs
    /\ \A buf \in Allocated : Cardinality(Frees(buf)) <= 1
    /\ pc \in {"return", "done"} =>
          Allocated \ FreedBuffers = OwnedByCallers

(* a failure path that had one buffer to release has returned *)
C14_Witness ==
    /\ TopLevelReturned
    /\ ~NoMallocFailed
    /\ Allocated # {}
    /\ Allocated = FreedBuffers

(* C15: one run of the interference checker reports no key twice *)
ReportedKeys == {reports[r].reg : r \in 1..Len(reports)}
C15_OneReportPerKey ==
    pc = "done" =>
        \A r, q \in 1..Len(reports) :
            r # q => reports[r].reg # reports[q].reg

(* C16: for equal-length lists with the same key at every index and      *)
(* diff_count > 0, the reported keys are exactly the keys that have a    *)
(* duplicate group on a side and differ in value at an index holding the *)
(* key; the example gives one group per side and one report with         *)
(* indices 0, 1 and both values of each                                  *)
GroupKeys ==
    {left_dups[d].reg : d \in 1..Len(left_dups)}
        \cup {right_dups[d].reg : d \in 1..Len(right_dups)}
DiffersAtKey(reg) ==
    \E i \in 1..Len(cfg1) : cfg1[i].reg = reg /\ cfg1[i].val # cfg2[i].val

C17_InterferenceGuard ==
    pc = "done" =>
        (/\ invoked => (Len(cfg1) = Len(cfg2) /\ diff_count > 0)
         /\ ~invoked => reports = <<>>
         /\ Len(cfg1) # Len(cfg2) => ~invoked)

(* different lengths, repeated keys, and a nested diff_count above 0 *)
C17_Witness ==
    /\ pc = "done"
    /\ Len(cfg1) # Len(cfg2)
    /\ diff_count > 0
    /\ Len(left_dups) > 0
    /\ ~invoked

(* C18: the two extracted sublists hold only records whose key occurs in *)
(* both lists, and both list the keys in the order of the left list:     *)
(* the right sublist has, index by index, the keys of the left sublist   *)
Extracted == DifferencerRan /\ (callers # <<>> \/ common_result # <<>>)
KeySequence(cfg) == [k \in 1..Len(cfg) |-> cfg[k].reg]

C18_CommonSublistsLeftOrder ==
    Extracted =>
        (/\ KeysOf(common1) \subseteq KeysOf(cfg1) \cap KeysOf(cfg2)
         /\ KeysOf(common2) \subseteq KeysOf(cfg1) \cap KeysOf(cfg2)
         /\ KeySequence(common1) = KeySequence(extract_common(cfg1, cfg2))
         /\ KeySequence(common2) = KeySequence(common1))

(* C19: with lists of different lengths the unique display shows, in the *)
(* left column, every record of the left list whose key is not in the    *)
(* right list, in index order, and in the right column every record of   *)
(* the right list whose key is not in the left list, in index order      *)
Indexed(cfg) ==
    [k \in 1..Len(cfg) |->
        [index |-> k - 1, reg |-> cfg[k].reg, val |-> cfg[k].val]]
OnlyIn(a, b) ==
    LET absent(e) == e.reg \notin KeysOf(b)
    IN SelectSeq(Indexed(a), absent)
RECURSIVE LeftColumn(_)
LeftColumn(lines) ==
    IF lines = <<>> THEN <<>>
    ELSE Head(lines).left \o LeftColumn(Tail(lines))
RECURSIVE RightColumn(_)
RightColumn(lines) ==
    IF lines = <<>> THEN <<>>
    ELSE Head(lines).right \o RightColumn(Tail(lines))

C19_UniqueBothSides ==
    DifferencerRan =>
        (/\ LeftColumn(unique_lines) = OnlyIn(cfg1, cfg2)
         /\ RightColumn(unique_lines) = OnlyIn(cfg2, cfg1))

(* C13: after a malloc of the sublists failed the failure has been       *)
(* reported, nothing was extracted, no nested comparison has run or      *)
(* runs, the call returns -1, and the run goes on: a further step of     *)
(* main is possible, and main returns only after its last table          *)
AllocFailureSeen ==
    \E k \in 1..Len(heap_log) : heap_log[k].op = "malloc_failed"
Reported(msg) == \E k \in 1..Len(messages) : messages[k] = msg

C13_AllocFailureAbandonsBranch ==
    /\ [](AllocFailureSeen =>
            (/\ Reported(MsgAllocFailed)
             /\ common1 = <<>> /\ common2 = <<>>
             /\ common_result = <<>>
             /\ callers = <<>>
             /\ pc \notin {"call", "alloc", "scan"}
             /\ ret = <<StructuralError>>
             /\ pc # "exit" => ENABLED <<RunNext>>_vars))
    /\ [][(AllocFailureSeen /\ pc' = "exit") => check = "ddrphy_pie"]_vars

(* the failure happened in a set-point table and check_fsp_cfg has       *)
(* returned into main with tables still to compare                       *)
C13_Witness ==
    /\ AllocFailureSeen
    /\ check = "fsp_cfg"
    /\ pc = "done"
    /\ main_ret = -1

(* C20: every run compares all its table pairs, in the order ddrc_cfg,   *)
(* fsp_cfg[i], ddrphy_cfg, the three sub-tables of fsp_msg[i],           *)
(* ddrphy_trained_csr, ddrphy_pie (the set-point tables when both sides  *)
(* have the same number of them)                                         *)
SetPoints(left, right) == IF left = right THEN left ELSE 0
ExpectedOrder ==
    <<Table("ddrc_cfg", 0, 0)>>
    \o [k \in 1..SetPoints(nums.fsp_cfg_left, nums.fsp_cfg_right) |->
           Table("fsp_cfg", k - 1, 0)]
    \o <<Table("ddrphy_cfg", 0, 0)>>
    \o [k \in 1..(3 * SetPoints(nums.fsp_msg_left, nums.fsp_msg_right)) |->
           Table("fsp_msg", (k - 1) \div 3, (k - 1) % 3)]
    \o <<Table("ddrphy_trained_csr", 0, 0), Table("ddrphy_pie", 0, 0)>>

C20_AllTablesCompared ==
    /\ [](/\ Len(compared) <= Len(ExpectedOrder)
          /\ compared = SubSeq(ExpectedOrder, 1, Len(compared)))
    /\ <>(compared = ExpectedOrder)

(* ---- C21 ---- *)
(* some argument stops main before any table: an unknown option that no   *)
(* help option precedes                                                   *)
UnknownOptionFirst ==
    \E k \in 1..Len(argv) :
        /\ argv[k] \notin {"--list-duplicates", "--help", "-h"}
        /\ \A j \in 1..(k - 1) : argv[j] = "--list-duplicates"

(* C21 as stated: for every command line and every comparison outcome the *)
(* program ends with exit code 0                                          *)
C21_Original == pc = "exit" => exit_code = <<0>>

(* C21: whenever main returns, it returns 1 if it met an unknown option   *)
(* before any help option, and 0 otherwise, whatever the comparisons of   *)
(* the tables returned                                                    *)
C21_ExitCode ==
    pc = "exit" => exit_code = IF UnknownOptionFirst THEN <<1>> ELSE <<0>>

C21_Witness ==
    /\ pc = "exit"
    /\ exit_code = <<0>>
    /\ main_ret = -1
    /\ argv = <<"--list-duplicates">>

(* ---- C22 ---- *)
(* the keys of cfg[from .. min(from + 50, n) - 1] *)
WindowKeys(cfg, from) ==
    {At(cfg, j).reg : j \in from..(Min(from + LookaheadWindow, Len(cfg)) - 1)}

(* the first index >= pos of cfg whose key is one of keys, or the list end *)
FirstIn(cfg, pos, keys) ==
    IF \E p \in pos..(Len(cfg) - 1) : At(cfg, p).reg \in keys
    THEN CHOOSE p \in pos..(Len(cfg) - 1) :
             /\ At(cfg, p).reg \in keys
             /\ \A q \in pos..(p - 1) : At(cfg, q).reg \notin keys
    ELSE Len(cfg)

(* while pc = "scan" every block was written by the scan that is running *)
(* on arg1 and arg2                                                       *)
LeftStopsAtWindow(b) ==
    b.left_end = FirstIn(arg1, b.left_start, WindowKeys(arg2, b.right_start))

(* C22 as stated: on a mismatch the left cursor stops at the first key    *)
(* found in the right window at i2, the right cursor at the first key     *)
(* found in the left window at the i1 held when the mismatch was detected *)
C22_Original ==
    pc = "scan" => \A k \in 1..Len(blocks) :
        /\ LeftStopsAtWindow(blocks[k])
        /\ blocks[k].right_end =
               FirstIn(arg2, blocks[k].right_start,
                       WindowKeys(arg1, blocks[k].left_start))

(* C22: on a mismatch the left cursor stops at the first key found in the *)
(* right window at i2, and the right cursor at the first key found in the *)
(* left window anchored at the left cursor's new position                 *)
C22_WindowAtAdvancedCursor ==
    pc = "scan" => \A k \in 1..Len(blocks) :
        /\ LeftStopsAtWindow(blocks[k])
        /\ blocks[k].right_end =
               FirstIn(arg2, blocks[k].right_start,
                       WindowKeys(arg1, blocks[k].left_end))

(* a block whose two anchors give different right ends *)
C22_Witness ==
    pc = "scan" /\ \E k \in 1..Len(blocks) :
        /\ blocks[k].left_start < blocks[k].left_end
        /\ FirstIn(arg2, blocks[k].right_start,
                   WindowKeys(arg1, blocks[k].left_start))
           # FirstIn(arg2, blocks[k].right_start,
                     WindowKeys(arg1, blocks[k].left_end))

(* ---- C23 ---- *)
(* left indices whose value differs from the value of the lowest-index    *)
(* right record of the same key                                           *)
DiffersFromLowest(a, b) ==
    {i \in 0..(Len(a) - 1) :
        \E j \in 0..(Len(b) - 1) :
            /\ At(b, j).reg = At(a, i).reg
            /\ \A k \in 0..(j - 1) : At(b, k).reg # At(a, i).reg
            /\ At(b, j).val # At(a, i).val}

(* the different-order path has just returned 1 for arg1 and arg2 *)
ReorderedReturned == pc = "return" /\ ret = <<DifferentOrder>>

(* C23: when the comparison returns Reordered, diffCount is the number of *)
(* left indices whose value differs from that of the lowest-index right   *)
(* record of the same key, exactly those indices are reported, in         *)
(* increasing order, and 0 <= diffCount <= list length                    *)
C23_KeyedDiffCount ==
    ReorderedReturned =>
        /\ diff_count = Cardinality(DiffersFromLowest(arg1, arg2))
        /\ Len(value_diffs) = diff_count
        /\ {value_diffs[k].index : k \in 1..Len(value_diffs)}
               = DiffersFromLowest(arg1, arg2)
        /\ \A k \in 1..(Len(value_diffs) - 1) :
               value_diffs[k].index < value_diffs[k + 1].index
        /\ 0 <= diff_count /\ diff_count <= Len(arg1)

(* a Reordered result with repeated keys where a later right record of a  *)
(* key would have given another answer than the lowest-index one          *)
C23_Witness ==
    /\ ReorderedReturned
    /\ 0 < diff_count
    /\ diff_count < Len(arg1)
    /\ \E i \in 0..(Len(arg1) - 1), j \in 0..(Len(arg2) - 1) :
           /\ i \notin DiffersFromLowest(arg1, arg2)
           /\ At(arg2, j).reg = At(arg1, i).reg
           /\ At(arg2, j).val # At(arg1, i).val

(* ---- C24 ---- *)
OverCap(cfg) ==
    {reg \in KeysOf(cfg) : Cardinality(Occurrences(cfg, reg)) > MaxOccurrences}

(* the first MaxOccurrences indices at which cfg holds reg *)
FirstOccurrences(cfg, reg) ==
    {i \in Occurrences(cfg, reg) :
        Cardinality({j \in Occurrences(cfg, reg) : j < i}) < MaxOccurrences}

CapTruncates(cfg, dups) ==
    \A reg \in OverCap(cfg) :
        /\ Cardinality({d \in 1..Len(dups) : dups[d].reg = reg}) <= 1
        /\ \A d \in 1..Len(dups) :
              dups[d].reg = reg =>
                  {dups[d].indices[k] : k \in 1..Len(dups[d].indices)}
                      = FirstOccurrences(cfg, reg)

(* C24: a key occurring more than 64 times has one group, which holds     *)
(* exactly its first 64 occurrences; the occurrences beyond the cap are   *)
(* in no group and start no second group                                  *)
C24_CapTruncates ==
    pc = "done" =>
        /\ CapTruncates(cfg1, left_dups)
        /\ CapTruncates(cfg2, right_dups)

(* ---- C25 ---- *)
FirstOccurrence(cfg, reg) ==
    CHOOSE i \in Occurrences(cfg, reg) : \A j \in Occurrences(cfg, reg) : i <= j

GroupIndices(g) == {g.indices[k] : k \in 1..Len(g.indices)}

OrderedByKeyOccurrence(cfg, dups) ==
    \A d, e \in 1..Len(dups) :
        d < e => FirstOccurrence(cfg, dups[d].reg)
                     <= FirstOccurrence(cfg, dups[e].reg)

GroupsWellFormed(dups) ==
    /\ \A d \in 1..Len(dups) :
          /\ Len(dups[d].indices) >= 2
          /\ \A k \in 1..(Len(dups[d].indices) - 1) :
                dups[d].indices[k] < dups[d].indices[k + 1]
    /\ \A d, e \in 1..Len(dups) :
          d # e => GroupIndices(dups[d]) \cap GroupIndices(dups[e]) = {}

(* C25: the groups are ordered by the index of the first occurrence of    *)
(* their key, each has at least 2 entries with strictly increasing        *)
(* indices, and no index is in two groups                                 *)
C25_OutputShape ==
    pc = "done" =>
        /\ OrderedByKeyOccurrence(cfg1, left_dups)
        /\ GroupsWellFormed(left_dups)
        /\ OrderedByKeyOccurrence(cfg2, right_dups)
        /\ GroupsWellFormed(right_dups)

(* ---- C26 ---- *)
(* C26: every entry of an interference report for key K is at an index    *)
(* where both the left and the right list hold key K                      *)
C26_ReportEntriesHoldKey ==
    (pc = "done" /\ invoked) =>
        \A r \in 1..Len(reports) :
            \A k \in 1..Len(reports[r].indices) :
                /\ At(cfg1, reports[r].indices[k]).reg = reports[r].reg
                /\ At(cfg2, reports[r].indices[k]).reg = reports[r].reg

(* ---- C27 ---- *)
(* the scan is running on arg1 and arg2, or has just returned for them *)
ScanState == pc = "scan" \/ ReorderedReturned

LeftRange(seg) == seg.left_start..(seg.left_end - 1)
RightRange(seg) == seg.right_start..(seg.right_end - 1)

(* each segment starts where the one before it ended, the first at 0 *)
Contiguous ==
    \A k \in 1..Len(segments) :
        /\ segments[k].left_start =
               (IF k = 1 THEN 0 ELSE segments[k - 1].left_end)
        /\ segments[k].right_start =
               (IF k = 1 THEN 0 ELSE segments[k - 1].right_end)
        /\ segments[k].left_start <= segments[k].left_end
        /\ segments[k].right_start <= segments[k].right_end
        /\ segments[k].left_end <= Len(arg1)
        /\ segments[k].right_end <= Len(arg2)

NonEmpty ==
    \A k \in 1..Len(segments) :
        /\ segments[k].kind = "matched" =>
               /\ LeftRange(segments[k]) # {}
               /\ RightRange(segments[k]) # {}
        /\ segments[k].kind \in {"block", "trailing"} =>
               LeftRange(segments[k]) # {} \/ RightRange(segments[k]) # {}

CursorsAtEnd ==
    /\ i1 = (IF segments = <<>> THEN 0 ELSE segments[Len(segments)].left_end)
    /\ i2 = (IF segments = <<>> THEN 0 ELSE segments[Len(segments)].right_end)

CoveredOnce ==
    /\ \A x \in 0..(Len(arg1) - 1) :
          Cardinality({k \in 1..Len(segments) :
                          x \in LeftRange(segments[k])}) = 1
    /\ \A x \in 0..(Len(arg2) - 1) :
          Cardinality({k \in 1..Len(segments) :
                          x \in RightRange(segments[k])}) = 1

(* C27: during the scan 0 <= i1 <= len(left) and 0 <= i2 <= len(right),   *)
(* the cursors never move back, the matched runs, blocks (non-empty on at *)
(* least one side) and trailing suffix are contiguous ranges in           *)
(* increasing order inside the lists, and when the scan has ended they    *)
(* cover every index of each list exactly once                            *)
C27_ScanInvariant ==
    ScanState =>
        /\ 0 <= i1 /\ i1 <= Len(arg1)
        /\ 0 <= i2 /\ i2 <= Len(arg2)
        /\ Contiguous
        /\ NonEmpty
        /\ pc = "scan" => CursorsAtEnd
        /\ ReorderedReturned => CoveredOnce

(* a finished scan with a matched run, a block and a trailing suffix *)
C27_Witness ==
    /\ ReorderedReturned
    /\ \A kind \in {"matched", "block", "trailing"} :
           \E k \in 1..Len(segments) : segments[k].kind = kind

(* ---- C28 ---- *)
(* C28: a nested call is one level deep, its two lists have equal length  *)
(* and the same keys, it allocates nothing (the only mallocs are its      *)
(* caller's two), and what it returns is 0 (identical order) or 1         *)
(* (reordered), never -1                                                  *)
C28_NestedNeverStructural ==
    /\ Len(callers) <= 1
    /\ callers # <<>> =>
          /\ Len(arg1) = Len(arg2)
          /\ KeysOf(arg1) = KeysOf(arg2)
          /\ pc \in {"call", "scan", "return"}
          /\ Cardinality(Mallocs) = 2
          /\ pc = "return" => ret \in {<<SameOrder>>, <<DifferentOrder>>}
    /\ common_result \in {<<>>, <<SameOrder>>, <<DifferentOrder>>}

(* a nested call has returned 1 (reordered) to the unequal-length call *)
C28_Witness ==
    /\ callers = <<>>
    /\ pc = "return"
    /\ common_result = <<DifferentOrder>>
    /\ Len(arg1) > Len(arg2)

(* ---- C29 ---- *)
(* a call, outermost or nested, returns 0 or 1 in this step *)
OutcomeStep ==
    /\ pc \in {"call", "scan"}
    /\ pc' = "return"
    /\ ret' \in {<<SameOrder>>, <<DifferentOrder>>}

(* a check_* function calls the comparator for its next table *)
TableCallStep == pc' = "call" /\ callers' = <<>> /\ callers = <<>>

(* C29: the caller's diff_count is stored to exactly in the steps in      *)
(* which the call or its nested call returns 0 or 1, where it receives    *)
(* the count of value differences; every other step of a comparison, the  *)
(* returns of -1 included, leaves it as it was                            *)
C29_DiffCountFrame ==
    [][/\ OutcomeStep =>
             diff_count' =
                 IF ret' = <<SameOrder>>
                 THEN Cardinality({i \in 1..Len(arg1) :
                                      arg1[i].val # arg2[i].val})
                 ELSE Cardinality(DiffersFromLowest(arg1, arg2))
       /\ (~OutcomeStep /\ ~TableCallStep) => diff_count' = diff_count]_vars

(* a table of check_fsp_msg has returned -1 without a nested comparison   *)
(* and the caller's diff_count still holds the value it had before        *)
C29_Witness ==
    /\ check = "fsp_msg"
    /\ pc = "return" /\ callers = <<>>
    /\ ret = <<StructuralError>>
    /\ common_result = <<>>
    /\ diff_count = 1

(* ---- C30 ---- *)
(* the call with the swapped arguments has returned as well *)
BothReturned == first_outcome # <<>> /\ pc = "return" /\ callers = <<>>

(* C30 as stated: compare(A, B) and compare(B, A) return the same         *)
(* outcome, and the same diffCount when the keys within each list are     *)
(* pairwise distinct                                                      *)
C30_Original ==
    BothReturned =>
        /\ ret[1] = first_outcome[1].ret
        /\ (DistinctKeys(cfg1) /\ DistinctKeys(cfg2)) =>
               diff_count = first_outcome[1].diff_count

(* C30: compare(A, B) and compare(B, A) return the same outcome, and,     *)
(* when the keys within each list are pairwise distinct and the sublist   *)
(* allocation failed in both calls or in neither, the same diffCount      *)
C30_SwapSymmetric ==
    BothReturned =>
        /\ ret[1] = first_outcome[1].ret
        /\ (/\ DistinctKeys(cfg1) /\ DistinctKeys(cfg2)
            /\ first_outcome[1].malloc_failed = ~NoMallocFailed) =>
               diff_count = first_outcome[1].diff_count

(* two lists of distinct keys and unequal length whose common records     *)
(* differ in a value, compared in both directions without a failed malloc *)
C30_Witness ==
    /\ BothReturned
    /\ ret = <<StructuralError>>
    /\ common_result = <<SameOrder>>
    /\ DistinctKeys(cfg1) /\ DistinctKeys(cfg2)
    /\ NoMallocFailed /\ ~first_outcome[1].malloc_failed
    /\ diff_count > 0

====
